---------------------------- MODULE Spec2Model ----------------------------
(***************************************************************************)
(* A model of dialoguer's yes/no confirmation prompt,                      *)
(* src/prompts/confirm.rs: the Confirm builder (with_theme and its         *)
(* setters) and the interaction loop of Confirm::interact_on.              *)
(*                                                                         *)
(* Strings that the code inspects (the line buffer, a keystroke) are       *)
(* sequences of one-character strings, so that trim_end and to_lowercase   *)
(* are computed character by character.  Every terminal, renderer and      *)
(* stdin operation is one step; it either succeeds or fails with an        *)
(* io::Error, and every attempt is appended to the history variable log.   *)
(***************************************************************************)
EXTENDS Integers, Sequences, FiniteSets, TLC

(***************************************************************************)
(* Bounds of the model.                                                    *)
(***************************************************************************)
\* The number of input reads (read_line / read_char) one call may perform.
MaxReads == 3

\* The number of input reads of a call that is made a second time.
MaxReplayReads == 2

\* Prompt texts handed to with_prompt / with_text.
Prompts == {"", "Continue?"}

\* Terminal handles a caller may pass to interact_on.
Terms == {"stderr", "stdout"}

\* The io::Error values an operation may fail with.
IoErrors == {"BrokenPipe", "Interrupted"}

\* Keystrokes Term::read_char may deliver.
Keys == {"y", "Y", "n", "N", "\n", "\r", "x"}

\* Lines read_line may append to the buffer (<<>> : end of input, Ok(0)).
Lines ==
    { <<>>,
      <<"\n">>,
      <<"y", "\n">>,
      <<"Y", "\r", "\n">>,
      <<"Y", "e", "s", "\n">>,
      <<"Y", "E", "S", " ", "\n">>,
      <<"n", "\n">>,
      <<"N", "O", "\n">>,
      <<"n", "o">>,
      <<" ", "y", "\n">>,
      <<"m", "a", "y", "b", "e", "\n">> }

(***************************************************************************)
(* State.                                                                  *)
(***************************************************************************)
VARIABLES
    self,        \* the Confirm struct: prompt, default, show_default,
                 \* disable_default, wait_for_newline, theme
    passed,      \* history: per setter, the value of its last call, or Unset
    pc,          \* position of the one thread of control
    term,        \* interact_on's parameter term
    default,     \* interact_on's local `default` (the Option shown)
    input_buf,   \* interact_on's local `input_buf` (line mode)
    rv,          \* interact_on's local `rv`
    ret,         \* what interact_on returned
    cursor,      \* whether the terminal shows its cursor
    first,       \* history: the first call (its log, result and Confirm) once
                 \* the same call is made again, <<>> before
    log          \* history: every operation attempted, in order

vars == <<self, passed, pc, term, default, input_buf, rv, ret, cursor, first, log>>

Unset == <<"Unset">>
None == <<"None">>
Some(v) == <<"Some", v>>
Ok(v) == <<"Ok", v>>
Err(e) == <<"Err", e>>

Fields == {"prompt", "default", "show_default", "disable_default", "wait_for_newline"}

(***************************************************************************)
(* Construction and the setters.                                           *)
(***************************************************************************)
\* Confirm::with_theme: the field values of a fresh Confirm.
with_theme(theme) ==
    [ prompt           |-> "",
      default          |-> TRUE,
      show_default     |-> TRUE,
      disable_default  |-> FALSE,
      wait_for_newline |-> FALSE,
      theme            |-> theme ]

\* Confirm::new
new == with_theme("SimpleTheme")

Init ==
    /\ self = new
    /\ passed = [f \in Fields |-> Unset]
    /\ pc = "build"
    /\ term = None
    /\ default = None
    /\ input_buf = <<>>
    /\ rv = None
    /\ ret = None
    /\ cursor = "shown"
    /\ first = <<>>
    /\ log = <<>>

\* A faulty variant of SetField: disable_default assigns to show_default.
SetFieldWrongField(s, field, val) ==
    IF field = "disable_default"
    THEN [s EXCEPT !["show_default"] = val]
    ELSE [s EXCEPT ![field] = val]

\* The assignment a setter makes: self.<field> = val.
SetField(s, field, val) == [s EXCEPT ![field] = val]

Setter(field, val) ==
    /\ pc = "build"
    /\ self' = SetField(self, field, val)
    /\ passed' = [passed EXCEPT ![field] = Some(val)]
    /\ UNCHANGED <<pc, term, default, input_buf, rv, ret, cursor, first, log>>

with_prompt(prompt) == Setter("prompt", prompt)

with_text(text) == with_prompt(text)

wait_for_newline(wait) == Setter("wait_for_newline", wait)

set_default(val) == Setter("default", val)

show_default(val) == Setter("show_default", val)

disable_default(val) == Setter("disable_default", val)


(***************************************************************************)
(* The string operations interact_on applies to the line buffer.           *)
(***************************************************************************)
\* char::is_whitespace, on the characters of the model's alphabet.
is_whitespace(c) == c \in {" ", "\t", "\n", "\r"}

\* str::trim_end: the string without its trailing whitespace.
RECURSIVE trim_end(_)
trim_end(s) ==
    IF s = <<>> THEN s
    ELSE IF is_whitespace(s[Len(s)]) THEN trim_end(SubSeq(s, 1, Len(s) - 1))
    ELSE s

UpperCase == <<"A", "B", "C", "D", "E", "F", "G", "H", "I", "J", "K", "L", "M",
               "N", "O", "P", "Q", "R", "S", "T", "U", "V", "W", "X", "Y", "Z">>
LowerCase == <<"a", "b", "c", "d", "e", "f", "g", "h", "i", "j", "k", "l", "m",
               "n", "o", "p", "q", "r", "s", "t", "u", "v", "w", "x", "y", "z">>

\* char::to_lowercase
char_to_lowercase(c) ==
    IF \E i \in DOMAIN UpperCase : UpperCase[i] = c
    THEN LowerCase[CHOOSE i \in DOMAIN UpperCase : UpperCase[i] = c]
    ELSE c

\* str::to_lowercase
to_lowercase(s) == [i \in 1..Len(s) |-> char_to_lowercase(s[i])]

\* A faulty variant of Scrutinee: the buffer is not lower-cased.
ScrutineeCaseSensitive(buf) == trim_end(buf)

\* The expression matched in line mode: &*input_buf.trim_end().to_lowercase()
Scrutinee(buf) == to_lowercase(trim_end(buf))

\* A faulty variant of match_line: the guard `if !self.disable_default` is
\* missing.
match_line_unguarded(buf, s) ==
    LET m == Scrutinee(buf) IN
    IF m \in {<<"y">>, <<"y", "e", "s">>} THEN Some(TRUE)
    ELSE IF m \in {<<"n">>, <<"n", "o">>} THEN Some(FALSE)
    ELSE IF m = <<>> THEN Some(s.default)
    ELSE None

\* A faulty variant of match_line: the empty string answers true instead of
\* self.default.
match_line_empty_is_yes(buf, s) ==
    LET m == Scrutinee(buf) IN
    IF m \in {<<"y">>, <<"y", "e", "s">>} THEN Some(TRUE)
    ELSE IF m \in {<<"n">>, <<"n", "o">>} THEN Some(FALSE)
    ELSE IF m = <<>> /\ ~s.disable_default THEN Some(TRUE)
    ELSE None

\* The match of line mode: Some(rv), or None for the arm `_` that re-prompts.
match_line(buf, s) ==
    LET m == Scrutinee(buf) IN
    IF m \in {<<"y">>, <<"y", "e", "s">>} THEN Some(TRUE)
    ELSE IF m \in {<<"n">>, <<"n", "o">>} THEN Some(FALSE)
    ELSE IF m = <<>> /\ ~s.disable_default THEN Some(s.default)
    ELSE None

\* A faulty variant of match_char: the default is accepted only when it is
\* shown.
match_char_if_shown(input, s) ==
    IF input \in {"y", "Y"} THEN Some(TRUE)
    ELSE IF input \in {"n", "N"} THEN Some(FALSE)
    ELSE IF input \in {"\n", "\r"} /\ ~s.disable_default /\ s.show_default
         THEN Some(s.default)
    ELSE None

\* A faulty variant of match_char: the guard `if !self.disable_default` is
\* missing.
match_char_unguarded(input, s) ==
    IF input \in {"y", "Y"} THEN Some(TRUE)
    ELSE IF input \in {"n", "N"} THEN Some(FALSE)
    ELSE IF input \in {"\n", "\r"} THEN Some(s.default)
    ELSE None

\* The match of keystroke mode: Some(rv), or None for the arm `_` that continues.
match_char(input, s) ==
    IF input \in {"y", "Y"} THEN Some(TRUE)
    ELSE IF input \in {"n", "N"} THEN Some(FALSE)
    ELSE IF input \in {"\n", "\r"} /\ ~s.disable_default THEN Some(s.default)
    ELSE None

\* A faulty variant of effective_default: no default is shown when the
\* default cannot be selected.
effective_default_unless_disabled(s) ==
    IF s.show_default /\ ~s.disable_default THEN Some(s.default) ELSE None

\* The local `default` of interact_on: what the prompt shows as the default.
effective_default(s) == IF s.show_default THEN Some(s.default) ELSE None

(***************************************************************************)
(* Operations and their results.                                           *)
(***************************************************************************)
\* io::Result<()> values an operation may produce.
Results == {Ok(<<>>)} \cup {Err(e) : e \in IoErrors}

IsOk(r) == r[1] = "Ok"

ReadOps == {"read_line", "read_char"}

\* The input reads performed so far.
NumReads == Cardinality({i \in DOMAIN log : log[i].op \in ReadOps})

\* What the terminal and stdin answer to operation e of a call made again
\* on the same input stream: the read number n delivers what read number n
\* of the first call delivered, and any other operation ends as the
\* operation at its position in the first call did.
Replayed(e) ==
    LET fl == first[1].log
        k == Len(log) + 1
        reads == {i \in DOMAIN fl : fl[i].op \in ReadOps}
    IN  IF e.op \in ReadOps
        THEN \E j \in reads :
                /\ Cardinality({i \in reads : i <= j}) = NumReads + 1
                /\ e.arg = fl[j].arg
                /\ e.res = fl[j].res
        ELSE IF k <= Len(fl) /\ fl[k].op = e.op
             THEN e.res = fl[k].res
             ELSE IsOk(e.res)

\* The answers of the environment: any in a first call.
Feed(e) == IF first = <<>> THEN TRUE ELSE Replayed(e)

\* One attempted operation, appended to the history.
Record(op, on, arg, r) ==
    LET e == [op |-> op, on |-> on, arg |-> arg, res |-> r] IN
    /\ Feed(e)
    /\ log' = Append(log, e)

\* A faulty variant of QuestionMark: the result of the operation is dropped.
QuestionMarkDropped(r, next) == pc' = next /\ ret' = ret

\* The `?` after an operation: go on at next, or return the error.
QuestionMark(r, next) ==
    IF IsOk(r)
    THEN pc' = next /\ ret' = ret
    ELSE pc' = "done" /\ ret' = r

\* return Ok(rv) after the last operation, or its error.
ReturnOk(r) ==
    IF IsOk(r)
    THEN pc' = "done" /\ ret' = Ok(rv[2])
    ELSE pc' = "done" /\ ret' = r

\* A faulty variant of Then: term.show_cursor() is missing in keystroke mode.
ThenWithoutShowCursor(l) ==
    CASE l = "L157" -> "L159"
      [] l = "L159" -> "L160"
      [] l = "L174" -> "L167"
      [] l = "L180" -> "L181"
      [] l = "L199" -> "L200"
      [] l = "L200" -> "L202"

\* A faulty variant of Then: in keystroke mode the cursor is shown before
\* the confirmed line is rendered.
ThenShowBeforeRender(l) ==
    CASE l = "L157" -> "L159"
      [] l = "L159" -> "L160"
      [] l = "L174" -> "L167"
      [] l = "L180" -> "L181"
      [] l = "L199" -> "L201"
      [] l = "L201" -> "L200"
      [] l = "L200" -> "L202"

\* A faulty variant of Then: term.hide_cursor() and the first flush come
\* after the first read of line mode instead of before it.
ThenReadFirst(l) ==
    CASE l = "L157" -> "L167"
      [] l = "L159" -> "L160"
      [] l = "L174" -> "L167"
      [] l = "L180" -> "L181"
      [] l = "L199" -> "L200"
      [] l = "L200" -> "L201"
      [] l = "L201" -> "L202"

\* The statement that follows statement l in program order (`;`, and the
\* `continue` that ends the re-prompt arm).
Then(l) ==
    CASE l = "L157" -> "L159"
      [] l = "L159" -> "L160"
      [] l = "L174" -> "L167"
      [] l = "L180" -> "L181"
      [] l = "L199" -> "L200"
      [] l = "L200" -> "L201"
      [] l = "L201" -> "L202"

\* if self.wait_for_newline { ... } else { ... }
ModeBranch(s) == IF s.wait_for_newline THEN "L167" ELSE "L189"

\* Where the match of line mode leads: the re-prompt arm, or on with rv.
LineArm(m) == IF m = None THEN "L174" ELSE "L180"

\* A faulty variant of CharArm: an invalid keystroke re-renders the prompt,
\* as an invalid line does.
CharArmReprompts(m) == IF m = None THEN "L174" ELSE "L199"

\* A faulty variant of CharArm: an invalid keystroke ends the call.
CharArmGivesUp(m) == IF m = None THEN "done" ELSE "L199"

\* Where the match of keystroke mode leads: `continue`, or on with rv.
CharArm(m) == IF m = None THEN "L189" ELSE "L199"

\* Where the input of line mode is read from: io::stdin().
LineSource(t) == "stdin"

\* Where the input of keystroke mode is read from: term.
CharSource(t) == t

\* A faulty variant of FreshBuf: the buffer outlives the call.
FreshBufStale(buf) == buf

\* let mut input_buf = String::new()
FreshBuf(buf) == <<>>

\* Term::hide_cursor / Term::show_cursor on the terminal's cursor.
HideCursor(c) == "hidden"
ShowCursor(c) == "shown"

(***************************************************************************)
(* Confirm::interact_on, one step per operation; the label of a step is    *)
(* the line of confirm.rs it is about to execute.                          *)
(***************************************************************************)
\* Entry: the renderer is created on term and the local `default` computed.
interact_on(t) ==
    /\ pc = "build"
    /\ term' = t
    /\ default' = effective_default(self)
    /\ pc' = "L157"
    /\ UNCHANGED <<self, passed, first, input_buf, rv, ret, cursor, log>>

\* Confirm::interact
interact == interact_on("stderr")

\* render.confirm_prompt(&self.prompt, default)?
L157 ==
    /\ pc = "L157"
    /\ \E r \in Results :
        /\ Record("confirm_prompt", term, <<self.prompt, default>>, r)
        /\ QuestionMark(r, Then("L157"))
    /\ UNCHANGED <<self, passed, first, term, default, input_buf, rv, cursor>>

\* term.hide_cursor()?
L159 ==
    /\ pc = "L159"
    /\ \E r \in Results :
        /\ Record("hide_cursor", term, <<>>, r)
        /\ cursor' = IF IsOk(r) THEN HideCursor(cursor) ELSE cursor
        /\ QuestionMark(r, Then("L159"))
    /\ UNCHANGED <<self, passed, first, term, default, input_buf, rv>>

\* term.flush()?  and the choice of the input mode; let mut input_buf
L160 ==
    /\ pc = "L160"
    /\ \E r \in Results :
        /\ Record("flush", term, <<>>, r)
        /\ QuestionMark(r, ModeBranch(self))
    /\ input_buf' = FreshBuf(input_buf)
    /\ UNCHANGED <<self, passed, first, term, default, rv, cursor>>

\* io::stdin().read_line(&mut input_buf)?  and the match on the buffer
L167 ==
    /\ pc = "L167"
    /\ NumReads < MaxReads
    /\ \/ \E line \in Lines :
            LET buf == input_buf \o line
                m == match_line(buf, self)
            IN  /\ Record("read_line", LineSource(term), <<line>>, Ok(<<>>))
                /\ input_buf' = buf
                /\ pc' = LineArm(m)
                /\ rv' = IF m = None THEN rv ELSE m
                /\ ret' = ret
       \/ \E e \in IoErrors :
            /\ Record("read_line", LineSource(term), <<>>, Err(e))
            /\ QuestionMark(Err(e), "L167")
            /\ UNCHANGED <<input_buf, rv>>
    /\ UNCHANGED <<self, passed, first, term, default, cursor>>

\* A faulty variant of ClearBuf: the buffer keeps the invalid line.
ClearBufKept(buf) == buf

\* The buffer after the re-prompt: input_buf.clear()
ClearBuf(buf) == <<>>

\* On invalid input: render.confirm_prompt(&self.prompt, default)?;
\* input_buf.clear(); continue
L174 ==
    /\ pc = "L174"
    /\ \E r \in Results :
        /\ Record("confirm_prompt", term, <<self.prompt, default>>, r)
        /\ QuestionMark(r, Then("L174"))
        /\ input_buf' = IF IsOk(r) THEN ClearBuf(input_buf) ELSE input_buf
    /\ UNCHANGED <<self, passed, first, term, default, rv, cursor>>

\* term.show_cursor()?  (line mode)
L180 ==
    /\ pc = "L180"
    /\ \E r \in Results :
        /\ Record("show_cursor", term, <<>>, r)
        /\ cursor' = IF IsOk(r) THEN ShowCursor(cursor) ELSE cursor
        /\ QuestionMark(r, Then("L180"))
    /\ UNCHANGED <<self, passed, first, term, default, input_buf, rv>>

\* term.flush()?; return Ok(rv)  (line mode)
L181 ==
    /\ pc = "L181"
    /\ \E r \in Results :
        /\ Record("flush", term, <<>>, r)
        /\ ReturnOk(r)
    /\ UNCHANGED <<self, passed, first, term, default, input_buf, rv, cursor>>

\* let input = term.read_char()?  and the match on input
L189 ==
    /\ pc = "L189"
    /\ NumReads < MaxReads
    /\ \/ \E input \in Keys :
            LET m == match_char(input, self)
            IN  /\ Record("read_char", CharSource(term), <<input>>, Ok(<<>>))
                /\ pc' = CharArm(m)
                /\ rv' = IF m = None THEN rv ELSE m
                /\ ret' = ret
       \/ \E e \in IoErrors :
            /\ Record("read_char", CharSource(term), <<>>, Err(e))
            /\ QuestionMark(Err(e), "L189")
            /\ rv' = rv
    /\ UNCHANGED <<self, passed, first, term, default, input_buf, cursor>>

\* term.clear_line()?
L199 ==
    /\ pc = "L199"
    /\ \E r \in Results :
        /\ Record("clear_line", term, <<>>, r)
        /\ QuestionMark(r, Then("L199"))
    /\ UNCHANGED <<self, passed, first, term, default, input_buf, rv, cursor>>

\* render.confirm_prompt_selection(&self.prompt, rv)?
L200 ==
    /\ pc = "L200"
    /\ \E r \in Results :
        /\ Record("confirm_prompt_selection", term, <<self.prompt, rv[2]>>, r)
        /\ QuestionMark(r, Then("L200"))
    /\ UNCHANGED <<self, passed, first, term, default, input_buf, rv, cursor>>

\* term.show_cursor()?  (keystroke mode)
L201 ==
    /\ pc = "L201"
    /\ \E r \in Results :
        /\ Record("show_cursor", term, <<>>, r)
        /\ cursor' = IF IsOk(r) THEN ShowCursor(cursor) ELSE cursor
        /\ QuestionMark(r, Then("L201"))
    /\ UNCHANGED <<self, passed, first, term, default, input_buf, rv>>

\* term.flush()?; return Ok(rv)  (keystroke mode)
L202 ==
    /\ pc = "L202"
    /\ \E r \in Results :
        /\ Record("flush", term, <<>>, r)
        /\ ReturnOk(r)
    /\ UNCHANGED <<self, passed, first, term, default, input_buf, rv, cursor>>

Next ==
    \/ \E p \in Prompts : with_prompt(p)
    \/ \E p \in Prompts : with_text(p)
    \/ \E b \in BOOLEAN : wait_for_newline(b)
    \/ \E b \in BOOLEAN : set_default(b)
    \/ \E b \in BOOLEAN : show_default(b)
    \/ \E b \in BOOLEAN : disable_default(b)
    \/ interact
    \/ \E t \in Terms : interact_on(t)
    \/ L157 \/ L159 \/ L160
    \/ L167 \/ L174 \/ L180 \/ L181
    \/ L189 \/ L199 \/ L200 \/ L201 \/ L202

Spec == Init /\ [][Next]_vars

\* The caller calls interact_on(term) again on the same Confirm, with the
\* input stream of the call that has returned: a new activation, whose
\* locals are new.
call_again ==
    /\ pc = "done"
    /\ first = <<>>
    /\ NumReads <= MaxReplayReads
    /\ first' = <<[log |-> log, ret |-> ret, self |-> self]>>
    /\ default' = effective_default(self)
    /\ rv' = None
    /\ ret' = None
    /\ log' = <<>>
    /\ pc' = "L157"
    /\ UNCHANGED <<self, passed, term, input_buf, cursor>>

\* Runs with a second call.
TwoCallSpec == Init /\ [][Next \/ call_again]_vars

\* The thread runs: an operation that writes to the terminal is performed
\* once control reaches it.  Nothing is assumed of the reads, which block
\* until input arrives.
FairSpec == Spec /\ WF_vars(L157 \/ L159 \/ L160 \/ L174 \/ L180 \/ L181
                            \/ L199 \/ L200 \/ L201 \/ L202)

(***************************************************************************)
(* Vocabulary of the properties: what the history says, and the reference  *)
(* classification of an input, stated on the input's characters.           *)
(***************************************************************************)
Returned == pc = "done"
Succeeded == pc = "done" /\ IsOk(ret)
Failed == pc = "done" /\ ~IsOk(ret)

\* Positions of the history holding an operation op, and those that succeeded.
Ops(op) == {i \in DOMAIN log : log[i].op = op}
OkOps(op) == {i \in Ops(op) : IsOk(log[i].res)}

ReadIdx == {i \in DOMAIN log : log[i].op \in ReadOps}
OkReads == {i \in ReadIdx : IsOk(log[i].res)}
IsLastRead(i) == \A j \in ReadIdx : j <= i

\* Labels at which the call is in its input loop, waiting for (more) input.
Waiting == {"L167", "L174", "L189"}

Whitespace == {" ", "\t", "\n", "\r"}

\* The two cases of a letter.
Variants(c) ==
    CASE c = "y" -> {"y", "Y"}
      [] c = "e" -> {"e", "E"}
      [] c = "s" -> {"s", "S"}
      [] c = "n" -> {"n", "N"}
      [] c = "o" -> {"o", "O"}

\* line is the word w in any case, followed by whitespace only.
Spells(line, w) ==
    /\ Len(line) >= Len(w)
    /\ \A i \in 1..Len(w) : line[i] \in Variants(w[i])
    /\ \A i \in (Len(w) + 1)..Len(line) : line[i] \in Whitespace

\* A successful read e delivered an explicit yes / an explicit no / the
\* input that accepts the default.
SaysYes(e) ==
    IF e.op = "read_line"
    THEN Spells(e.arg[1], <<"y">>) \/ Spells(e.arg[1], <<"y", "e", "s">>)
    ELSE e.arg[1] \in {"y", "Y"}

SaysNo(e) ==
    IF e.op = "read_line"
    THEN Spells(e.arg[1], <<"n">>) \/ Spells(e.arg[1], <<"n", "o">>)
    ELSE e.arg[1] \in {"n", "N"}

SaysDefault(e) ==
    IF e.op = "read_line"
    THEN \A i \in DOMAIN e.arg[1] : e.arg[1][i] \in Whitespace
    ELSE e.arg[1] \in {"\n", "\r"}

\* C1: with disable_default = false, a newline or carriage return (keystroke
\* mode) or a line that is blank once its trailing whitespace is trimmed
\* (line mode) ends the loop with rv = default_answer, after any number of
\* invalid inputs, and a successful return then returns exactly default_answer.
C1_DefaultAccepted ==
    ~self.disable_default =>
        \A i \in OkReads :
            SaysDefault(log[i]) =>
                /\ IsLastRead(i)
                /\ pc \notin Waiting
                /\ rv = Some(self.default)
                /\ (Succeeded => ret = Ok(self.default))

\* C1 witness: line mode, default false, two invalid lines then a blank
\* line, returned false.
C1_Witness ==
    /\ Succeeded
    /\ self.wait_for_newline /\ ~self.disable_default /\ ~self.default
    /\ NumReads >= 3
    /\ \E i \in OkReads : IsLastRead(i) /\ SaysDefault(log[i])
    /\ ret = Ok(FALSE)

\* C2: with disable_default = true, a newline / carriage return / blank line
\* produces no outcome: right after it the call is back in its input loop
\* with nothing returned, and a call that succeeds after it was ended by a
\* later explicit yes or no, whose answer it returns.
C2_DefaultDisabled ==
    self.disable_default =>
        \A i \in OkReads :
            SaysDefault(log[i]) =>
                /\ (i = Len(log) => pc \in Waiting /\ rv = None /\ ret = None)
                /\ (Returned /\ IsLastRead(i) => Failed)
                /\ (Succeeded =>
                        \E j \in OkReads :
                            /\ j > i
                            /\ IsLastRead(j)
                            /\ \/ SaysYes(log[j]) /\ ret = Ok(TRUE)
                               \/ SaysNo(log[j]) /\ ret = Ok(FALSE))

\* C2 witness: keystroke mode, default true, keystrokes '\n', '\n', 'n',
\* returned false.
C2_Witness ==
    /\ Succeeded
    /\ ~self.wait_for_newline /\ self.disable_default /\ self.default
    /\ OkReads = {4, 5, 6}
    /\ log[4].arg = <<"\n">> /\ log[5].arg = <<"\n">> /\ log[6].arg = <<"n">>
    /\ ret = Ok(FALSE)

\* C3: hide_cursor is called at most once and before every input read, the
\* cursor is hidden at every step from there to show_cursor, show_cursor is
\* called at most once and after every read, and a successful call made
\* exactly one call of each and leaves the cursor shown.
C3_Cursor ==
    /\ Cardinality(Ops("hide_cursor")) <= 1
    /\ Cardinality(Ops("show_cursor")) <= 1
    /\ \A r \in ReadIdx : \E h \in OkOps("hide_cursor") : h < r
    /\ \A r \in ReadIdx : \A w \in Ops("show_cursor") : r < w
    /\ (OkOps("hide_cursor") # {} /\ OkOps("show_cursor") = {}) => cursor = "hidden"
    /\ pc \in Waiting => cursor = "hidden"
    /\ Succeeded =>
        /\ Cardinality(OkOps("hide_cursor")) = 1
        /\ Cardinality(OkOps("show_cursor")) = 1
        /\ cursor = "shown"

\* C3 witness: a successful line-mode call that consumed two invalid lines.
C3_Witness ==
    /\ Succeeded
    /\ self.wait_for_newline
    /\ Cardinality(Ops("confirm_prompt")) = 3
    /\ cursor = "shown"

\* C4: a successful call, in either input mode, ends with clear_line, the
\* render of the confirmed selection with the prompt and the returned value,
\* show_cursor and flush, in this order, the first three exactly once.
C4_FinalSequence ==
    Succeeded =>
        LET n == Len(log) IN
        /\ n >= 4
        /\ log[n - 3].op = "clear_line"
        /\ log[n - 2].op = "confirm_prompt_selection"
        /\ log[n - 2].arg = <<self.prompt, ret[2]>>
        /\ log[n - 1].op = "show_cursor"
        /\ log[n].op = "flush"
        /\ Cardinality(Ops("clear_line")) = 1
        /\ Cardinality(Ops("confirm_prompt_selection")) = 1
        /\ Cardinality(Ops("show_cursor")) = 1

\* C5: an operation that fails is the last operation of the call: the call
\* has returned, with that operation's error and no boolean; and a call
\* that returned an error returned the error of its last operation.
C5_ErrorPropagates ==
    /\ \A i \in DOMAIN log :
        ~IsOk(log[i].res) =>
            /\ i = Len(log)
            /\ pc = "done"
            /\ ret = log[i].res
    /\ Failed => log # <<>> /\ log[Len(log)].res = ret

\* C5 witness: the re-render of the prompt after an invalid line failed and
\* the call returned that error.
C5_Witness ==
    /\ Failed
    /\ Len(log) = 5
    /\ log[5].op = "confirm_prompt"
    /\ log[5].res = Err("Interrupted")
    /\ ret = Err("Interrupted")

\* C6: every input read of interact_on(term), in both modes, is a read on
\* the handle term.
C6_ReadsOnTerm == \A i \in ReadIdx : log[i].on = term

\* C7: an explicit yes or no, in any case (and, in line mode, followed by
\* any whitespace) ends the loop with its own answer, whatever default_answer
\* and disable_default are, and a successful call returns the answer of the
\* input that ended the loop.
C7_Classification ==
    /\ \A i \in OkReads :
        (SaysYes(log[i]) \/ SaysNo(log[i])) =>
            /\ IsLastRead(i)
            /\ pc \notin Waiting
            /\ rv = Some(SaysYes(log[i]))
            /\ (Succeeded => ret = Ok(SaysYes(log[i])))
    /\ Succeeded =>
        \E i \in OkReads :
            /\ IsLastRead(i)
            /\ \/ SaysYes(log[i]) /\ ret = Ok(TRUE)
               \/ SaysNo(log[i]) /\ ret = Ok(FALSE)
               \/ SaysDefault(log[i]) /\ ~self.disable_default /\ ret = Ok(self.default)

\* C7 witness: line mode, default false, the line "YES \n" returned true.
C7_Witness ==
    /\ Succeeded
    /\ self.wait_for_newline /\ ~self.default /\ self.disable_default
    /\ \E i \in OkReads : log[i].arg = << <<"Y", "E", "S", " ", "\n">> >>
    /\ ret = Ok(TRUE)

\* An input that produces an outcome under the current configuration.
Valid(e) ==
    SaysYes(e) \/ SaysNo(e) \/ (SaysDefault(e) /\ ~self.disable_default)

\* The call returns with a boolean or an error and nothing else; while every
\* input so far was invalid and no operation failed it is in its input loop.
C8_Outcome ==
    /\ Returned <=> ret # None
    /\ Returned =>
        \/ ret[1] = "Ok" /\ ret[2] \in BOOLEAN
        \/ ret[1] = "Err" /\ ret[2] \in IoErrors
    /\ Succeeded => \E i \in OkReads : IsLastRead(i) /\ Valid(log[i])
    /\ ( /\ Len(log) >= 3
         /\ \A i \in DOMAIN log : IsOk(log[i].res)
         /\ \A i \in ReadIdx : ~Valid(log[i]) ) => pc \in Waiting

\* C8: interact_on returns only with one boolean or a propagated error; it
\* never gives up on invalid input (after any number of invalid inputs and
\* no failure it is still in its input loop); and once a valid input has
\* been read the call returns.
C8_NeverGivesUp ==
    /\ []C8_Outcome
    /\ (\E i \in OkReads : Valid(log[i])) ~> Returned

\* C8 witness: keystroke mode, two invalid keystrokes and then a valid one,
\* returned.
C8_Witness ==
    /\ Succeeded
    /\ ~self.wait_for_newline
    /\ OkReads = {4, 5, 6}
    /\ ~Valid(log[4]) /\ ~Valid(log[5]) /\ Valid(log[6])

\* C9: the operations of a call begin with the render of the prompt, then
\* hide_cursor, then flush, each after the one before succeeded, and the
\* first input read comes only after these three.
C9_Opening ==
    /\ Len(log) >= 1 => log[1].op = "confirm_prompt"
    /\ Len(log) >= 2 => IsOk(log[1].res) /\ log[2].op = "hide_cursor"
    /\ Len(log) >= 3 => IsOk(log[2].res) /\ log[3].op = "flush"
    /\ Len(log) >= 4 => IsOk(log[3].res) /\ log[4].op \in ReadOps
    /\ \A r \in ReadIdx : r >= 4

\* C9 witness: line mode, the first read has just been attempted.
C9_Witness ==
    /\ self.wait_for_newline
    /\ Len(log) = 4
    /\ log[4].op = "read_line"

\* C10: every field of the Confirm holds the value passed by the last call
\* of its own setter, or its construction value (prompt "", default true,
\* show_default true, disable_default false, keystroke mode) if that setter
\* was never called.
C10_Setters ==
    /\ new.prompt = "" /\ new.default /\ new.show_default
    /\ ~new.disable_default /\ ~new.wait_for_newline
    /\ \A f \in Fields :
        self[f] = IF passed[f] = Unset THEN new[f] ELSE passed[f][2]

\* C10 witness: three setters called, each field with its own last value,
\* the two fields never set with their construction values.
C10_Witness ==
    /\ passed.prompt = Some("Continue?")
    /\ passed.default = Some(FALSE)
    /\ passed.disable_default = Some(TRUE)
    /\ passed.show_default = Unset /\ passed.wait_for_newline = Unset
    /\ self.prompt = "Continue?" /\ ~self.default /\ self.disable_default
    /\ self.show_default /\ ~self.wait_for_newline

\* C11: in keystroke mode a keystroke that is not valid is followed directly
\* by the next read_char, with no render, clear_line, cursor or flush
\* operation in between; the first valid keystroke is the last one read; the
\* prompt is rendered once and the confirmed line at most once, exactly once
\* in a successful call, with the answer of that first valid keystroke.
C11_SilentDiscard ==
    (log # <<>> /\ ~self.wait_for_newline) =>
        /\ \A i \in OkReads :
            ~Valid(log[i]) =>
                /\ i = Len(log) => pc = "L189" /\ ret = None
                /\ i < Len(log) => log[i + 1].op = "read_char"
        /\ \A i \in OkReads :
            Valid(log[i]) =>
                /\ IsLastRead(i)
                /\ \A j \in OkReads : j < i => ~Valid(log[j])
        /\ Cardinality(Ops("confirm_prompt")) = 1
        /\ Cardinality(Ops("confirm_prompt_selection")) <= 1
        /\ Succeeded =>
            /\ Cardinality(OkOps("confirm_prompt_selection")) = 1
            /\ \A i \in Ops("confirm_prompt_selection") :
                log[i].arg = <<self.prompt, ret[2]>>

\* C11 witness: default true, keystrokes 'x', 'x', '\n' returned true after
\* two discarded keystrokes and one render of the confirmed line.
C11_Witness ==
    /\ Succeeded
    /\ ~self.wait_for_newline /\ self.default /\ self.show_default
    /\ ~self.disable_default
    /\ OkReads = {4, 5, 6}
    /\ log[4].arg = <<"x">> /\ log[5].arg = <<"x">> /\ log[6].arg = <<"\n">>
    /\ Cardinality(Ops("confirm_prompt_selection")) = 1
    /\ ret = Ok(TRUE)

\* C12: in line mode an invalid line is followed by exactly one render of
\* the prompt, with the arguments of the initial render, and then by another
\* read_line; a line that is valid by itself ends the loop whatever lines
\* came before it; a successful call that read k invalid lines rendered the
\* prompt k + 1 times.
C12_Reprompt ==
    (log # <<>> /\ self.wait_for_newline) =>
        /\ \A i \in OkReads :
            ~Valid(log[i]) =>
                /\ i = Len(log) => pc = "L174" /\ ret = None
                /\ i < Len(log) =>
                    /\ log[i + 1].op = "confirm_prompt"
                    /\ log[i + 1].arg = log[1].arg
                /\ i + 1 < Len(log) => log[i + 2].op = "read_line"
        /\ \A i \in OkReads :
            Valid(log[i]) => IsLastRead(i) /\ pc \notin Waiting /\ rv # None
        /\ Cardinality(Ops("confirm_prompt")) <= Cardinality(OkReads) + 1
        /\ Succeeded =>
            Cardinality(OkOps("confirm_prompt")) = Cardinality(OkReads)

\* C12 witness: disable_default true, default false, the lines "\n",
\* "maybe\n", "no" returned false after two re-prompts.
C12_Witness ==
    /\ Succeeded
    /\ self.wait_for_newline /\ self.disable_default /\ ~self.default
    /\ OkReads = {4, 6, 8}
    /\ log[4].arg = << <<"\n">> >>
    /\ log[6].arg = << <<"m", "a", "y", "b", "e", "\n">> >>
    /\ log[8].arg = << <<"n", "o">> >>
    /\ Cardinality(Ops("confirm_prompt")) = 3
    /\ ret = Ok(FALSE)

\* C13: every render of the prompt, the initial one and every re-prompt,
\* passes self.prompt and Some(default_answer) if show_default is true, None
\* if it is false, whatever disable_default is.
C13_PromptArguments ==
    \A i \in Ops("confirm_prompt") :
        log[i].arg =
            <<self.prompt, IF self.show_default THEN Some(self.default) ELSE None>>

\* C13 witness: disable_default true and show_default true: the prompt and
\* a re-prompt both showed Some(false).
C13_Witness ==
    /\ self.disable_default /\ self.show_default /\ ~self.default
    /\ self.prompt = "Continue?"
    /\ Ops("confirm_prompt") = {1, 5}
    /\ log[5].arg = <<"Continue?", Some(FALSE)>>

\* Operations between hide_cursor and show_cursor, by name; the flush among
\* them is the one at position 3 of the history.
BeforeShow ==
    {"read_line", "read_char", "confirm_prompt", "clear_line",
     "confirm_prompt_selection"}

\* C14: when the operation that failed is the first flush, an input read, a
\* re-render of the prompt, clear_line or the render of the confirmed line,
\* the call has returned the error without any call of show_cursor and the
\* cursor is hidden.
C14_CursorLeftHidden ==
    LET n == Len(log) IN
    ( /\ Failed
      /\ n >= 3
      /\ \/ log[n].op \in BeforeShow
         \/ log[n].op = "flush" /\ n = 3 ) =>
        /\ OkOps("hide_cursor") # {}
        /\ Ops("show_cursor") = {}
        /\ cursor = "hidden"

\* C14 witness: keystroke mode, the render of the confirmed line failed.
C14_Witness ==
    /\ Failed
    /\ log[Len(log)].op = "confirm_prompt_selection"
    /\ cursor = "hidden"

\* Every read so far succeeded and delivered no characters (end of input).
Exhausted ==
    /\ ReadIdx # {}
    /\ \A i \in ReadIdx : IsOk(log[i].res) /\ log[i].arg = << <<>> >>

\* C15: in line mode on exhausted input, with disable_default = true the
\* call has not returned after any number of reads unless an operation
\* failed: every empty read is followed by a re-render and another read;
\* with disable_default = false the first empty read ends the loop with
\* default_answer, which a successful call returns.
C15_ExhaustedInput ==
    (self.wait_for_newline /\ Exhausted) =>
        IF self.disable_default
        THEN /\ ~Succeeded
             /\ (\A i \in DOMAIN log : IsOk(log[i].res)) =>
                    /\ pc \in {"L167", "L174"}
                    /\ ret = None
                    /\ Cardinality(Ops("confirm_prompt")) \in
                          {NumReads, NumReads + 1}
        ELSE /\ NumReads = 1
             /\ pc \notin Waiting
             /\ rv = Some(self.default)
             /\ Succeeded => ret = Ok(self.default)

\* C15 witness: disable_default true, three empty reads, each re-prompted,
\* and the call is about to read again.
C15_Witness ==
    /\ self.wait_for_newline /\ self.disable_default
    /\ Exhausted
    /\ NumReads = 3
    /\ Cardinality(Ops("confirm_prompt")) = 4
    /\ pc = "L167"

\* The answer an input gives, as a function of the input, default_answer
\* and disable_default alone.
RefAnswer(e, default_answer, no_default) ==
    IF SaysYes(e) THEN Some(TRUE)
    ELSE IF SaysNo(e) THEN Some(FALSE)
    ELSE IF SaysDefault(e) /\ ~no_default THEN Some(default_answer)
    ELSE None

\* C16: what the call does with each input (go on reading, or end the loop
\* with an answer), the number of inputs it consumes and the outcome it
\* returns are given by a function of the input mode, disable_default,
\* default_answer and the inputs alone, for every prompt text and every
\* show_default; so two runs that differ only in these two agree on them.
C16_IndependentOfDisplay ==
    /\ \A i \in OkReads :
        LET a == RefAnswer(log[i], self.default, self.disable_default) IN
        /\ log[i].op = IF self.wait_for_newline THEN "read_line" ELSE "read_char"
        /\ a = None =>
            /\ i = Len(log) => pc \in Waiting /\ ret = None
            /\ ~(Succeeded /\ IsLastRead(i))
        /\ a # None =>
            /\ IsLastRead(i)
            /\ pc \notin Waiting
            /\ rv = a
            /\ Succeeded => ret = Ok(a[2])
    /\ Succeeded => OkReads # {}

\* C16 witness: show_default false and a prompt text set: after an invalid
\* keystroke the newline was accepted and default_answer (false) returned.
C16_Witness ==
    /\ Succeeded
    /\ ~self.show_default /\ self.prompt = "Continue?" /\ ~self.default
    /\ OkReads = {4, 5}
    /\ log[4].arg = <<"x">> /\ log[5].arg = <<"\r">>
    /\ ret = Ok(FALSE)

\* The second call so far did what the first call did, operation by
\* operation, on an unchanged Confirm, and returns what it returned.
C17_Replay ==
    first # <<>> =>
        /\ self = first[1].self
        /\ Len(log) <= Len(first[1].log)
        /\ \A i \in DOMAIN log :
            /\ log[i].op = first[1].log[i].op
            /\ log[i] = first[1].log[i]
        /\ IF Returned
           THEN log = first[1].log /\ ret = first[1].ret
           ELSE Len(log) < Len(first[1].log)

\* C17: no step of a call, successful or failed, changes a field of the
\* Confirm, and a second call on the same Confirm with the same input stream
\* performs the same operations with the same arguments and results as the
\* first and returns the same outcome.
C17_NoStateKept ==
    /\ []C17_Replay
    /\ [][pc # "build" => self' = self]_vars

\* C17 witness: a second line-mode call that re-prompted once has returned
\* the boolean the first call returned.
C17_Witness ==
    /\ first # <<>>
    /\ Succeeded
    /\ self.wait_for_newline /\ self.prompt = "Continue?"
    /\ NumReads = 2
    /\ log = first[1].log /\ ret = first[1].ret

=============================================================================
